---------------------------- MODULE Spec2Model ----------------------------
(***************************************************************************)
(* Model of the minprog/theorie-check50 checks.                            *)
(*                                                                         *)
(*   BoardSpec : rush_hour/checks  (Board, Vehicle, check_moves)           *)
(*   GridSpec  : chips_and_circuits (Grid, Cell, check_grid, get_cost)     *)
(*   NetSpec   : chips_and_circuits (Net, Wire: the constructor's checks)  *)
(*   NetlistSpec : chips_and_circuits (check_netlist_complete)             *)
(*   EveningSpec : lectures_and_lesroosters (only_biggest_in_evening)      *)
(*   SlotSpec    : lectures_and_lesroosters (check_free_slots)             *)
(*                                                                         *)
(* Every Python object that the code mutates lives in a heap (a function   *)
(* from addresses to objects), so that aliasing and in-place mutation are  *)
(* visible in the model.                                                   *)
(***************************************************************************)
EXTENDS Integers, Sequences, FiniteSets, TLC

(***************************************************************************)
(* Bounds of the model.                                                    *)
(***************************************************************************)
\* BOARD_SIZE, "set by each check" (6, 9 or 12 in the sub-folders)
BOARD_SIZE == 3
\* largest |move| of a row of output.csv
MaxSteps == 2
\* largest number of rows of output.csv
MaxMoves == 2
\* largest number of net rows of output.csv handed to check_grid
MaxNets == 1
\* largest number of waypoints of a routed net handed to check_grid
MaxPath == 5
\* highest layer a waypoint of output.csv names
MaxLayer == 1
\* largest number of waypoints of a row handed to Net(...) alone
MaxWires == 3
MaxRows == 3
MaxRecords == 3
MaxLessons == 4

VARIABLES
    \* ---- rush_hour: check_moves ----
    pc,          \* position of check_moves: load, moves, passed, failed, error
    file,        \* rows of BOARD_FILE not yet read by Board.load
    heap,        \* address -> Board object
    board,       \* address held by the variable `board` (of load, then check_moves)
    vehicles,    \* check_moves's `vehicles` (the loaded board's list)
    nread,       \* rows of output.csv consumed so far
    entry,       \* the row of output.csv (or of BOARD_FILE) handled last
    raised,      \* exception raised by the last call: none, Collision, WallHit, ...
    was_solved,  \* history: some board before the current one was solved
    \* ---- chips_and_circuits: check_grid ----
    gpc,         \* position of check_grid: init, build, place, done, error
    print_file,  \* rows of data/chip_<id>/print_<id>.csv
    grid,        \* the Grid object
    nets,        \* check_grid's list `nets`
    nplaced,     \* nets of `nets` handed to grid.place_net so far
    graised,     \* exception raised by the last call of check_grid
    cost,        \* what is_solution returns: grid.get_cost()
    \* ---- chips_and_circuits: Net(...) ----
    net_args,    \* the arguments of the last Net(gate_a, gate_b, wires)
    net_result,  \* what that call did
    \* ---- chips_and_circuits: check_netlist_complete ----
    nl_args,     \* the netlist file and the nets of output.csv of the call
    nl_result,   \* what that call did
    \* ---- lectures_and_lesroosters: only_biggest_in_evening ----
    ev_schedule, \* the records of output.csv the check read
    ev_result,   \* what the check did
    \* ---- lectures_and_lesroosters: check_free_slots ----
    fs_schedule, \* the records of the frame handed to check_free_slots
    fs_result    \* what it returned

boardVars == <<pc, file, heap, board, vehicles, nread, entry, raised, was_solved>>
gridVars == <<gpc, print_file, grid, nets, nplaced, graised, cost>>
netVars == <<net_args, net_result>>
netlistVars == <<nl_args, nl_result>>
eveningVars == <<ev_schedule, ev_result>>
slotVars == <<fs_schedule, fs_result>>
vars == <<boardVars, gridVars, netVars, netlistVars, eveningVars, slotVars>>

Abs(n) == IF n >= 0 THEN n ELSE -n

(***************************************************************************)
(* rush_hour/checks/__init__.py                                            *)
(***************************************************************************)
EMPTY_TILE == "_"

\* class Vehicle
Vehicle(name, orientation, length) ==
    [name |-> name, orientation |-> orientation, length |-> length]

\* Vehicle.__eq__: equality is by name only.  A board cell refers to its
\* vehicle by that name.
VehicleEq(a, b) == a.name = b.name

\* Vehicle.is_red_car, applied to the vehicle a cell refers to
is_red_car(name) == name = "X"

\* range(n)
Range(n) == 0 .. (n - 1)

\* Board.__init__
Board(size) ==
    [size     |-> size,
     vehicles |-> << >>,
     _board   |-> [col \in Range(size) |-> [row \in Range(size) |-> EMPTY_TILE]]]

\* Board.place: the list `locations`
Locations(vehicle, col, row) ==
    IF vehicle.orientation = "V"
    THEN [i \in 1 .. vehicle.length |-> <<col, row + (i - 1)>>]
    ELSE [i \in 1 .. vehicle.length |-> <<col + (i - 1), row>>]

\* Mutant of PlaceLoop: the occupancy test is missing.
RECURSIVE PlaceLoopNoCollision(_, _, _, _, _)
PlaceLoopNoCollision(h, self, vehicle, locations, i) ==
    IF i > Len(locations)
    THEN [status |-> "ok",
          heap |-> [h EXCEPT ![self].vehicles = Append(@, vehicle)]]
    ELSE LET col == locations[i][1]
             row == locations[i][2]
         IN  IF col \notin 0 .. (h[self].size - 1) \/ row \notin 0 .. (h[self].size - 1)
             THEN [status |-> "WallHit", heap |-> h]
             ELSE PlaceLoopNoCollision(
                      [h EXCEPT ![self]._board[col][row] = vehicle.name],
                      self, vehicle, locations, i + 1)

\* Board.place: the loop over `locations`, from the i-th on; the cells before
\* the failing one stay written when it raises.
RECURSIVE PlaceLoop(_, _, _, _, _)
PlaceLoop(h, self, vehicle, locations, i) ==
    IF i > Len(locations)
    THEN [status |-> "ok",
          heap |-> [h EXCEPT ![self].vehicles = Append(@, vehicle)]]
    ELSE LET col == locations[i][1]
             row == locations[i][2]
         IN  IF col \notin Range(h[self].size) \/ row \notin Range(h[self].size)
             THEN [status |-> "WallHit", heap |-> h]
             ELSE IF h[self]._board[col][row] # EMPTY_TILE
             THEN [status |-> "Collision", heap |-> h]
             ELSE PlaceLoop([h EXCEPT ![self]._board[col][row] = vehicle.name],
                            self, vehicle, locations, i + 1)

\* Mutant of place: every cell is tested against the wall before any cell is
\* tested for a collision.
placeWallFirst(h, self, vehicle, col, row) ==
    LET locations == Locations(vehicle, col, row)
    IN  IF \E i \in DOMAIN locations :
               \/ locations[i][1] \notin Range(h[self].size)
               \/ locations[i][2] \notin Range(h[self].size)
        THEN [status |-> "WallHit", heap |-> h]
        ELSE PlaceLoop(h, self, vehicle, locations, 1)

\* Board.place
place(h, self, vehicle, col, row) ==
    PlaceLoop(h, self, vehicle, Locations(vehicle, col, row), 1)

\* Board.location_of: the first cell in row-major order (rows outermost)
\* that holds the vehicle
None == << >>
location_of(b, vehicle) ==
    LET hits == {p \in Range(b.size) \X Range(b.size) :
                    b._board[p[1]][p[2]] = vehicle.name}
    IN  IF hits = {} THEN None
        ELSE CHOOSE p \in hits :
                \A q \in hits : p[2] < q[2] \/ (p[2] = q[2] /\ p[1] <= q[1])

\* Mutant of is_solved: any vehicle on the exit counts.
is_solved_any_vehicle(b) ==
    b._board[b.size - 1][(b.size - 1) \div 2] # EMPTY_TILE

\* Board.is_solved
is_solved(b) ==
    LET goal_col == b.size - 1
        goal_row == (b.size - 1) \div 2
        vehicle_at_goal == b._board[goal_col][goal_row]
    IN  vehicle_at_goal # EMPTY_TILE /\ is_red_car(vehicle_at_goal)

\* [v for v in vehicles if v != vehicle]
OtherVehicles(vs, vehicle) == SelectSeq(vs, LAMBDA v : ~VehicleEq(v, vehicle))

\* Board.move: a fresh address for Board(...); 1 and 2 are the addresses the
\* variables of check_moves can hold.
NewAddr(h) == (CHOOSE a \in DOMAIN h \cup {2} : \A c \in DOMAIN h \cup {2} : c <= a) + 1

\* Mutant of PlaceOthers: only the first of other_vehicles is placed on
\* new_board.
PlaceOthersFirstOnly(h, new_board, cursor_board, other_vehicles, i) ==
    IF i > 1 \/ i > Len(other_vehicles)
    THEN [status |-> "ok", heap |-> h]
    ELSE LET loc == location_of(h[cursor_board], other_vehicles[i])
         IN  place(h, new_board, other_vehicles[i], loc[1], loc[2])

\* Board.move: placing other_vehicles on new_board, from the i-th on
RECURSIVE PlaceOthers(_, _, _, _, _)
PlaceOthers(h, new_board, cursor_board, other_vehicles, i) ==
    IF i > Len(other_vehicles)
    THEN [status |-> "ok", heap |-> h]
    ELSE LET loc == location_of(h[cursor_board], other_vehicles[i])
             r   == place(h, new_board, other_vehicles[i], loc[1], loc[2])
         IN  IF r.status # "ok" THEN r
             ELSE PlaceOthers(r.heap, new_board, cursor_board, other_vehicles, i + 1)

\* Mutant of UnitMove: the vehicle is lifted from the cursor board and put
\* down again on that same board.
UnitMoveInPlace(h, self, cursor_board, vehicle, mv) ==
    LET loc == location_of(h[cursor_board], vehicle)
        col == IF vehicle.orientation = "V" THEN loc[1] ELSE loc[1] + mv
        row == IF vehicle.orientation = "V" THEN loc[2] + mv ELSE loc[2]
        b   == h[cursor_board]
        lifted ==
            [b EXCEPT
               !._board = [c \in Range(b.size) |-> [r \in Range(b.size) |->
                              IF b._board[c][r] = vehicle.name
                              THEN EMPTY_TILE ELSE b._board[c][r]]],
               !.vehicles = SelectSeq(b.vehicles, LAMBDA v : v.name # vehicle.name)]
        r   == place([h EXCEPT ![cursor_board] = lifted], cursor_board,
                     vehicle, col, row)
    IN  [status |-> r.status, heap |-> r.heap, cursor |-> cursor_board]

\* Board.move: the body of `for move in moves`
UnitMove(h, self, cursor_board, vehicle, mv) ==
    LET new_board == NewAddr(h)
        h1  == (new_board :> Board(h[cursor_board].size)) @@ h
        r1  == PlaceOthers(h1, new_board, cursor_board,
                           OtherVehicles(h[self].vehicles, vehicle), 1)
        loc == location_of(h[cursor_board], vehicle)
        col == IF vehicle.orientation = "V" THEN loc[1] ELSE loc[1] + mv
        row == IF vehicle.orientation = "V" THEN loc[2] + mv ELSE loc[2]
        r2  == place(r1.heap, new_board, vehicle, col, row)
    IN  IF r1.status # "ok"
        THEN [status |-> r1.status, heap |-> r1.heap, cursor |-> cursor_board]
        ELSE IF r2.status # "ok"
        THEN [status |-> r2.status, heap |-> r2.heap, cursor |-> cursor_board]
        ELSE [status |-> "ok", heap |-> r2.heap, cursor |-> new_board]

\* Mutant of Moves: abs() is missing, [-1] * steps is empty for steps < 0.
MovesNoAbs(steps) ==
    IF steps >= 0 THEN [i \in 1 .. steps |-> 1] ELSE << >>

\* Board.move: `moves`
Moves(steps) ==
    IF steps >= 0 THEN [i \in 1 .. steps |-> 1] ELSE [i \in 1 .. Abs(steps) |-> -1]

\* Board.move: the loop over `moves`, from the i-th on
RECURSIVE MoveLoop(_, _, _, _, _, _)
MoveLoop(h, self, cursor_board, vehicle, moves, i) ==
    IF i > Len(moves)
    THEN [status |-> "ok", heap |-> h, ret |-> cursor_board]
    ELSE LET r == UnitMove(h, self, cursor_board, vehicle, moves[i])
         IN  IF r.status # "ok"
             THEN [status |-> r.status, heap |-> r.heap, ret |-> None]
             ELSE MoveLoop(r.heap, self, r.cursor, vehicle, moves, i + 1)

\* Mutant of move: the vehicle is put at its final position in one step.
moveToEnd(h, self, vehicle, steps) ==
    IF steps = 0
    THEN [status |-> "ok", heap |-> h, ret |-> self]
    ELSE LET r == UnitMove(h, self, self, vehicle, steps)
         IN  [status |-> r.status, heap |-> r.heap,
              ret |-> IF r.status = "ok" THEN r.cursor ELSE None]

\* Board.move
move(h, self, vehicle, steps) ==
    MoveLoop(h, self, self, vehicle, Moves(steps), 1)

(***************************************************************************)
(* Inputs: BOARD_FILE and output.csv                                       *)
(***************************************************************************)
\* A row of BOARD_FILE; col and row are 1-indexed in the file.
BoardRow(car, orientation, length, col, row) ==
    [car |-> car, orientation |-> orientation, length |-> length,
     col |-> col, row |-> row]

\* The board files: a one-cell vehicle B, optionally a car A, and the red car
\* X in the row of the exit; every anchor of the board is tried, also those
\* that put a vehicle across the wall or onto another vehicle.
Anchors == (0 .. BOARD_SIZE) \X (0 .. BOARD_SIZE)

BoardFiles ==
    LET rowB(p) == BoardRow("B", "V", 1, p[1], p[2])
        rowA(p) == BoardRow("A", "V", 2, p[1], p[2])
        rowX(c) == BoardRow("X", "H", 2, c, ((BOARD_SIZE - 1) \div 2) + 1)
    IN  { << rowB(pb), rowX(cx) >> : pb \in Anchors, cx \in 0 .. BOARD_SIZE }
        \cup
        { << rowB(pb), rowA(pa), rowX(cx) >> :
              pb \in Anchors, pa \in Anchors, cx \in 0 .. BOARD_SIZE }

NoEntry == [car |-> "", move |-> 0]

\* Board.load: one iteration of `for entry in csv.DictReader(file)`
LoadEntry ==
    /\ pc = "load"
    /\ file # << >>
    /\ LET e       == Head(file)
           vehicle == Vehicle(e.car, e.orientation, e.length)
           col     == e.col - 1
           row     == e.row - 1
           r       == place(heap, board, vehicle, col, row)
       IN  /\ heap' = r.heap
           /\ raised' = IF r.status # "ok" THEN r.status
                        ELSE IF location_of(r.heap[board], vehicle) # <<col, row>>
                        THEN "AssertionError"
                        ELSE "none"
           /\ pc' = IF raised' = "none" THEN "load" ELSE "error"
           /\ entry' = e
    /\ file' = Tail(file)
    /\ UNCHANGED <<board, vehicles, nread, was_solved, gridVars, netVars, netlistVars, eveningVars, slotVars>>

\* check_moves: Board.load returns, `vehicles = board.vehicles`
LoadReturn ==
    /\ pc = "load"
    /\ file = << >>
    /\ pc' = "moves"
    /\ vehicles' = heap[board].vehicles
    /\ UNCHANGED <<file, heap, board, nread, entry, raised, was_solved, gridVars, netVars, netlistVars, eveningVars, slotVars>>

\* check_moves: one iteration of `for entry in csv.DictReader(output_file)`.
\* check_file has passed: the car is on the board and the move is an integer.
\* An unreferenced board is dropped, but for the receiver of this call, which
\* is kept until the next step.
ApplyMove(car, steps) ==
    /\ pc = "moves"
    /\ nread < MaxMoves
    /\ LET vehicle == CHOOSE v \in {vehicles[i] : i \in DOMAIN vehicles} : v.name = car
           r       == move((board :> heap[board]), board, vehicle, steps)
           other   == 3 - board
       IN  IF r.status = "ok"
           THEN /\ board' = IF r.ret = board THEN board ELSE other
                /\ heap' = IF r.ret = board
                           THEN (board :> r.heap[board])
                           ELSE (board :> r.heap[board]) @@ (other :> r.heap[r.ret])
                /\ raised' = "none"
                /\ pc' = "moves"
           ELSE /\ board' = board
                /\ heap' = (board :> r.heap[board])
                /\ raised' = r.status
                /\ pc' = "failed"
    /\ nread' = nread + 1
    /\ entry' = [car |-> car, move |-> steps]
    /\ was_solved' = (was_solved \/ is_solved(heap[board]))
    /\ UNCHANGED <<file, vehicles, gridVars, netVars, netlistVars, eveningVars, slotVars>>

\* check_moves: output.csv is exhausted, `if not board.is_solved()`
EndOfMoves ==
    /\ pc = "moves"
    /\ pc' = IF is_solved(heap[board]) THEN "passed" ELSE "failed"
    /\ heap' = (board :> heap[board])
    /\ UNCHANGED <<file, board, vehicles, nread, entry, raised, was_solved, gridVars, netVars, netlistVars, eveningVars, slotVars>>

BoardNext ==
    \/ LoadEntry
    \/ LoadReturn
    \/ \E car \in {vehicles[i].name : i \in DOMAIN vehicles}, steps \in (-MaxSteps) .. MaxSteps : ApplyMove(car, steps)
    \/ EndOfMoves

(***************************************************************************)
(* chips_and_circuits/__init__.py                                          *)
(***************************************************************************)
NUMBER_OF_LAYERS == 8

\* class Gate
Gate(id, x, y) == [id |-> id, x |-> x, y |-> y, z |-> 0]

\* class Wire
Wire(x, y, z) == [x |-> x, y |-> y, z |-> z]

\* Wire._is_neighbor
_is_neighbor(self, other, distance) ==
    Abs(self.x - other.x) + Abs(self.y - other.y) + Abs(self.z - other.z) = distance

\* Wire.is_connected_to_gate
is_connected_to_gate(self, gate) == _is_neighbor(self, gate, 0)

\* Wire.is_neighbor_of_wire
is_neighbor_of_wire(self, wire) == _is_neighbor(self, wire, 1)

\* Net._check_connected
_check_connected(self) ==
    LET first == self.wires[1]
        last  == self.wires[Len(self.wires)]
    IN  IF is_connected_to_gate(first, self.gate_a)
           /\ is_connected_to_gate(last, self.gate_b)
        THEN "ok"
        ELSE IF is_connected_to_gate(first, self.gate_b)
                /\ is_connected_to_gate(last, self.gate_a)
        THEN "ok"
        ELSE "UnconnectedNetError"

\* Net._check_continuous: the loop over self.wires[1:], from the i-th wire
\* on; `cursor` is the wire before it.
RECURSIVE ContinuousLoop(_, _)
ContinuousLoop(wires, i) ==
    IF i > Len(wires)
    THEN [status |-> "ok", wires |-> << >>]
    ELSE IF ~is_neighbor_of_wire(wires[i - 1], wires[i])
    THEN [status |-> "InteruptedNetError", wires |-> <<wires[i - 1], wires[i]>>]
    ELSE ContinuousLoop(wires, i + 1)

\* Net._check_continuous
_check_continuous(self) == ContinuousLoop(self.wires, 2)

\* Mutant of Net: _check_continuous runs before _check_connected.
NetContinuousFirst(gate_a, gate_b, wires) ==
    LET self == [gate_a |-> gate_a, gate_b |-> gate_b, wires |-> wires]
        connected  == _check_connected(self)
        continuous == _check_continuous(self)
    IN  IF continuous.status # "ok"
        THEN [status |-> continuous.status, self |-> self, wires |-> continuous.wires]
        ELSE [status |-> connected, self |-> self, wires |-> << >>]

\* Net.__init__: the object, the exception it raises (or "ok") and the two
\* wires the message of InteruptedNetError names.
Net(gate_a, gate_b, wires) ==
    LET self == [gate_a |-> gate_a, gate_b |-> gate_b, wires |-> wires]
        connected  == _check_connected(self)
        continuous == _check_continuous(self)
    IN  IF connected # "ok"
        THEN [status |-> connected, self |-> self, wires |-> << >>]
        ELSE [status |-> continuous.status, self |-> self, wires |-> continuous.wires]

\* Grid.Cell.__init__
Cell == [occupants |-> << >>, is_gate |-> FALSE]

\* Grid.Cell.add_net
add_net(self, net) ==
    IF self.is_gate
    THEN [status |-> "OccupiedByGateError", cell |-> self]
    ELSE [status |-> "ok", cell |-> [self EXCEPT !.occupants = Append(@, net)]]

\* Grid.Cell.set_as_gate
set_as_gate(self, gate) ==
    IF self.is_gate
    THEN [status |-> "AssertionError", cell |-> self]
    ELSE [status |-> "ok", cell |-> [occupants |-> <<gate>>, is_gate |-> TRUE]]

\* max(...) of a non-empty set of numbers
Max(S) == CHOOSE m \in S : \A n \in S : n <= m

\* Mutant of place_gate: the cell of the gate is marked on every layer.
place_gate_every_layer(self, gate) ==
    LET r == set_as_gate(self._grid[0][gate.y][gate.x], gate)
    IN  [status |-> r.status,
         grid |-> [self EXCEPT !._grid =
                     [z \in DOMAIN self._grid |->
                        [self._grid[z] EXCEPT ![gate.y][gate.x] = r.cell]]]]

\* Grid.place_gate
place_gate(self, gate) ==
    LET r == set_as_gate(self._grid[0][gate.y][gate.x], gate)
    IN  [status |-> r.status,
         grid |-> [self EXCEPT !._grid[0][gate.y][gate.x] = r.cell]]

\* Grid.__init__: `for gate in self.gates: self.place_gate(gate)`
RECURSIVE PlaceGates(_, _)
PlaceGates(self, i) ==
    IF i > Len(self.gates)
    THEN [status |-> "ok", grid |-> self]
    ELSE LET r == place_gate(self, self.gates[i])
         IN  IF r.status # "ok" THEN r ELSE PlaceGates(r.grid, i + 1)

\* Grid.__init__
Grid(rows) ==
    LET gates  == [i \in DOMAIN rows |-> Gate(rows[i].chip, rows[i].x, rows[i].y)]
        width  == Max({gates[i].x : i \in DOMAIN gates}) + 2
        height == Max({gates[i].y : i \in DOMAIN gates}) + 2
        create_layer == [y \in Range(height) |-> [x \in Range(width) |-> Cell]]
    IN  PlaceGates([gates  |-> gates,
                    nets   |-> << >>,
                    width  |-> width,
                    height |-> height,
                    _grid  |-> [z \in Range(NUMBER_OF_LAYERS) |-> create_layer]], 1)

\* Grid.get_gate
get_gate(self, gate_id) ==
    LET found == {i \in DOMAIN self.gates : self.gates[i].id = gate_id}
    IN  IF found = {} THEN None
        ELSE self.gates[CHOOSE i \in found : \A j \in found : i <= j]

\* self._grid[z][y][x] exists (no IndexError); the coordinates of a wire are
\* parsed from digits and never negative
InGrid(self, wire) ==
    /\ wire.z \in Range(NUMBER_OF_LAYERS)
    /\ wire.y \in Range(self.height)
    /\ wire.x \in Range(self.width)

\* Grid.place_net: the loop over net.wires[1:-1], from the i-th wire of
\* net.wires on
RECURSIVE PlaceNetLoop(_, _, _)
PlaceNetLoop(self, net, i) ==
    IF i > Len(net.wires) - 1
    THEN [status |-> "ok", grid |-> self]
    ELSE LET wire == net.wires[i]
         IN  IF ~InGrid(self, wire)
             THEN [status |-> "IndexError", grid |-> self]
             ELSE LET r == add_net(self._grid[wire.z][wire.y][wire.x], net)
                  IN  IF r.status # "ok"
                      THEN [status |-> r.status, grid |-> self]
                      ELSE PlaceNetLoop(
                             [self EXCEPT !._grid[wire.z][wire.y][wire.x] = r.cell],
                             net, i + 1)

\* Mutant of place_net: the loop runs over net.wires, the two ends included.
place_net_every_wire(self, net) ==
    LET r == PlaceNetLoop([self EXCEPT !.nets = Append(@, net)],
                          [net EXCEPT !.wires = <<net.wires[1]>> \o @ \o <<net.wires[1]>>], 2)
    IN  r

\* Grid.place_net
place_net(self, net) ==
    PlaceNetLoop([self EXCEPT !.nets = Append(@, net)], net, 2)

\* the indices [z][y][x] of self._grid
GridCells(self) ==
    Range(NUMBER_OF_LAYERS) \X Range(self.height) \X Range(self.width)

\* Grid.get_cost: what one cell adds to `cost`
CellCost(cell) ==
    IF cell.is_gate THEN 0
    ELSE Len(cell.occupants)
         + (IF Len(cell.occupants) - 1 > 0 THEN Len(cell.occupants) - 1 ELSE 0) * 300

\* Grid.get_cost: the three loops, over the cells S still to visit
RECURSIVE CostOfCells(_, _)
CostOfCells(self, S) ==
    IF S = {} THEN 0
    ELSE LET c == CHOOSE c \in S : TRUE
         IN  CellCost(self._grid[c[1]][c[2]][c[3]]) + CostOfCells(self, S \ {c})

\* Grid.get_cost
get_cost(self) == CostOfCells(self, GridCells(self)) + Len(self.nets)

(***************************************************************************)
(* Inputs: print_<id>.csv and the net rows of output.csv                   *)
(***************************************************************************)
PrintRow(chip, x, y) == [chip |-> chip, x |-> x, y |-> y]

\* The gate layouts: two gates two cells apart, two adjacent gates, and a
\* layout that names one cell twice.
PrintFiles ==
    { << PrintRow("1", 0, 0), PrintRow("2", 0, 2) >>,
      << PrintRow("1", 0, 0), PrintRow("2", 0, 1) >>,
      << PrintRow("1", 0, 0), PrintRow("2", 0, 0) >> }

\* The waypoints a row of output.csv may name on the grid of a print: in the
\* columns of its gates, up to one row past the margin of the grid, on the
\* layers 0..MaxLayer.
WirePoints(rows) ==
    { Wire(x, y, z) : x \in 0 .. Max({rows[i].x : i \in DOMAIN rows}),
                      y \in 0 .. Max({rows[i].y : i \in DOMAIN rows}) + 2,
                      z \in 0 .. MaxLayer }

\* The routes of exactly n waypoints that leave from a gate and go from cell
\* to neighbouring cell.
RECURSIVE Routes(_, _)
Routes(rows, n) ==
    IF n = 1
    THEN { << Wire(rows[i].x, rows[i].y, 0) >> : i \in DOMAIN rows }
    ELSE { Append(rw[1], rw[2]) :
             rw \in { rw \in Routes(rows, n - 1) \X WirePoints(rows) :
                        is_neighbor_of_wire(rw[1][n - 1], rw[2]) } }

\* The wire lists of the rows of output.csv, for each print
WireLists ==
    [rows \in PrintFiles |-> UNION { Routes(rows, n) : n \in 1 .. MaxPath }]

NoGrid == [gates |-> << >>, nets |-> << >>, width |-> 0, height |-> 0, _grid |-> << >>]

\* check_grid: `grid = Grid(...)`; when Grid.__init__ raises, `grid` is
\* never bound
NewGrid ==
    /\ gpc = "init"
    /\ LET r == Grid(print_file)
       IN  /\ grid' = IF r.status = "ok" THEN r.grid ELSE grid
           /\ graised' = r.status
           /\ gpc' = IF r.status = "ok" THEN "build" ELSE "error"
    /\ UNCHANGED <<print_file, nets, nplaced, cost, boardVars, netVars, netlistVars, eveningVars, slotVars>>

\* check_grid: one iteration of `for line in output_data`; both gate ids
\* name gates of the print (check_netlist_complete has passed).
BuildNet(a, b, wires) ==
    /\ gpc = "build"
    /\ Len(nets) < MaxNets
    /\ LET r == Net(get_gate(grid, a), get_gate(grid, b), wires)
       IN  /\ graised' = r.status
           /\ nets' = IF r.status = "ok" THEN Append(nets, r.self) ELSE nets
           /\ gpc' = IF r.status = "ok" THEN "build" ELSE "error"
    /\ UNCHANGED <<print_file, grid, nplaced, cost, boardVars, netVars, netlistVars, eveningVars, slotVars>>

\* check_grid: output_data is exhausted
BuildDone ==
    /\ gpc = "build"
    /\ gpc' = "place"
    /\ UNCHANGED <<print_file, grid, nets, nplaced, graised, cost, boardVars, netVars, netlistVars, eveningVars, slotVars>>

\* check_grid: one iteration of `for net in nets: grid.place_net(net)`
PlaceNet ==
    /\ gpc = "place"
    /\ nplaced < Len(nets)
    /\ LET r == place_net(grid, nets[nplaced + 1])
       IN  /\ grid' = r.grid
           /\ graised' = r.status
           /\ gpc' = IF r.status = "ok" THEN "place" ELSE "error"
    /\ nplaced' = nplaced + 1
    /\ UNCHANGED <<print_file, nets, cost, boardVars, netVars, netlistVars, eveningVars, slotVars>>

\* is_solution: check_grid returns, `return grid.get_cost()`
ReturnCost ==
    /\ gpc = "place"
    /\ nplaced = Len(nets)
    /\ cost' = get_cost(grid)
    /\ gpc' = "done"
    /\ UNCHANGED <<print_file, grid, nets, nplaced, graised, boardVars, netVars, netlistVars, eveningVars, slotVars>>

GateIds(g) == {g.gates[i].id : i \in DOMAIN g.gates}

GridNext ==
    \/ NewGrid
    \/ /\ gpc = "build"
       /\ \E a \in GateIds(grid), b \in GateIds(grid), wires \in WireLists[print_file] :
             BuildNet(a, b, wires)
    \/ BuildDone
    \/ PlaceNet
    \/ ReturnCost


(***************************************************************************)
(* Net(...) on its own: every short list of waypoints                      *)
(***************************************************************************)
\* The gates a net is built between
NetGates == { Gate("1", 0, 0), Gate("2", 1, 1) }

\* The waypoints of a row: the cells between the two gates, on the layers
\* 0..MaxLayer
NetPoints == { Wire(x, y, z) : x \in 0 .. 1, y \in 0 .. 1, z \in 0 .. MaxLayer }

RECURSIVE SeqsOf(_, _)
SeqsOf(S, n) ==
    IF n = 0 THEN { << >> }
    ELSE { Append(q, e) : <<q, e>> \in SeqsOf(S, n - 1) \X S }

\* check_file lets through only rows with at least one waypoint
NetWireLists == UNION { SeqsOf(NetPoints, n) : n \in 1 .. MaxWires }

NoNet == [gate_a |-> None, gate_b |-> None, wires |-> << >>]

\* check_grid: `Net(gate_a, gate_b, wires)` for one row of output.csv
NewNet(gate_a, gate_b, wires) ==
    /\ net_args = NoNet
    /\ LET r == Net(gate_a, gate_b, wires)
       IN  /\ net_args' = r.self
           /\ net_result' = [status |-> r.status, wires |-> r.wires]
    /\ UNCHANGED <<boardVars, gridVars, netlistVars, eveningVars, slotVars>>

NetNext ==
    /\ net_args = NoNet
    /\ \E gate_a \in NetGates, gate_b \in NetGates, wires \in NetWireLists :
          NewNet(gate_a, gate_b, wires)

(***************************************************************************)
(* The specifications: one check runs at a time                            *)
(***************************************************************************)
\* check_moves starts; the other checks are not running
BoardInit ==
    /\ pc = "load"
    /\ file \in BoardFiles
    /\ heap = (1 :> Board(BOARD_SIZE))
    /\ board = 1
    /\ vehicles = << >>
    /\ nread = 0
    /\ entry = NoEntry
    /\ raised = "none"
    /\ was_solved = FALSE
    /\ gpc = "idle"
    /\ print_file = << >>
    /\ grid = NoGrid
    /\ nets = << >>
    /\ nplaced = 0
    /\ graised = "none"
    /\ cost = -1
    /\ net_args = NoNet
    /\ net_result = [status |-> "none", wires |-> << >>]
    /\ nl_args = [netlist |-> {}, output_gates |-> << >>]
    /\ nl_result = [status |-> "none", gates |-> {}]
    /\ ev_schedule = << >>
    /\ ev_result = "none"
    /\ fs_schedule = << >>
    /\ fs_result = [malus |-> -1, infeasible_students |-> -1]

\* check_grid starts; the other checks are not running
GridInit ==
    /\ pc = "idle"
    /\ file = << >>
    /\ heap = << >>
    /\ board = 0
    /\ vehicles = << >>
    /\ nread = 0
    /\ entry = NoEntry
    /\ raised = "none"
    /\ was_solved = FALSE
    /\ gpc = "init"
    /\ print_file \in PrintFiles
    /\ grid = NoGrid
    /\ nets = << >>
    /\ nplaced = 0
    /\ graised = "none"
    /\ cost = -1
    /\ net_args = NoNet
    /\ net_result = [status |-> "none", wires |-> << >>]
    /\ nl_args = [netlist |-> {}, output_gates |-> << >>]
    /\ nl_result = [status |-> "none", gates |-> {}]
    /\ ev_schedule = << >>
    /\ ev_result = "none"
    /\ fs_schedule = << >>
    /\ fs_result = [malus |-> -1, infeasible_students |-> -1]

\* Net(...) is about to be called; the checks are not running
NetInit ==
    /\ pc = "idle"
    /\ file = << >>
    /\ heap = << >>
    /\ board = 0
    /\ vehicles = << >>
    /\ nread = 0
    /\ entry = NoEntry
    /\ raised = "none"
    /\ was_solved = FALSE
    /\ gpc = "idle"
    /\ print_file = << >>
    /\ grid = NoGrid
    /\ nets = << >>
    /\ nplaced = 0
    /\ graised = "none"
    /\ cost = -1
    /\ net_args = NoNet
    /\ net_result = [status |-> "none", wires |-> << >>]
    /\ nl_args = [netlist |-> {}, output_gates |-> << >>]
    /\ nl_result = [status |-> "none", gates |-> {}]
    /\ ev_schedule = << >>
    /\ ev_result = "none"
    /\ fs_schedule = << >>
    /\ fs_result = [malus |-> -1, infeasible_students |-> -1]

BoardSpec == BoardInit /\ [][BoardNext]_vars
GridSpec == GridInit /\ [][GridNext]_vars
NetSpec == NetInit /\ [][NetNext]_vars


(***************************************************************************)
(* chips_and_circuits: check_netlist_complete                              *)
(***************************************************************************)
\* Mutant of OrderLoop: the netlist keeps the orientation of its file.
OrderLoopSkipped(netlist_gates, output_gates, i) == netlist_gates

\* check_netlist_complete: `for a, b in output_gates`, from the i-th on; a
\* net of the netlist takes the orientation output.csv gives it
RECURSIVE OrderLoop(_, _, _)
OrderLoop(netlist_gates, output_gates, i) ==
    IF i > Len(output_gates)
    THEN netlist_gates
    ELSE LET a == output_gates[i][1]
             b == output_gates[i][2]
         IN  IF <<a, b>> \notin netlist_gates /\ <<b, a>> \in netlist_gates
             THEN OrderLoop((netlist_gates \ {<<b, a>>}) \cup {<<a, b>>},
                            output_gates, i + 1)
             ELSE OrderLoop(netlist_gates, output_gates, i + 1)

\* set(output_gates)
SetOf(output_gates) == {output_gates[i] : i \in DOMAIN output_gates}

\* check_netlist_complete: the list `duplicates`, from the i-th gate pair on
RECURSIVE DuplicatesLoop(_, _)
DuplicatesLoop(output_gates, i) ==
    IF i > Len(output_gates)
    THEN << >>
    ELSE IF \E j \in 1 .. (i - 1) : output_gates[j] = output_gates[i]
         THEN <<output_gates[i]>> \o DuplicatesLoop(output_gates, i + 1)
         ELSE DuplicatesLoop(output_gates, i + 1)

\* check_netlist_complete, from the netlist read from the file and the gate
\* pairs of output.csv: the check50.Failure it raises (by its message) or
\* "ok"
check_netlist_complete(netlist, output_gates) ==
    LET netlist_gates == OrderLoop(netlist, output_gates, 1)
        output_set    == SetOf(output_gates)
        missing_gates == netlist_gates \ output_set
        extra_gates   == output_set \ netlist_gates
    IN  IF Cardinality(output_set) # Len(output_gates)
        THEN [status |-> "Duplicate gates", gates |-> SetOf(DuplicatesLoop(output_gates, 1))]
        ELSE IF netlist_gates # output_set
        THEN IF missing_gates # {}
             THEN [status |-> "Missing", gates |-> missing_gates]
             ELSE [status |-> "Found additional", gates |-> extra_gates]
        ELSE [status |-> "ok", gates |-> {}]

\* The gate ids of the print
GateNumbers == {1, 2, 3}

\* The netlist files: one or more nets between different gates, each
\* connection listed once
Netlists ==
    { nl \in SUBSET { <<a, b>> : a \in GateNumbers, b \in GateNumbers } :
        /\ nl # {}
        /\ \A n \in nl : n[1] # n[2] /\ <<n[2], n[1]>> \notin nl }

\* The net rows of output.csv: up to MaxRows pairs of gate ids
OutputGates ==
    UNION { SeqsOf({ <<a, b>> : a \in GateNumbers, b \in GateNumbers }, n) :
              n \in 0 .. MaxRows }

\* is_solution: `check_netlist_complete(chip_id, net_id, data)`
CheckNetlist(netlist, output_gates) ==
    /\ nl_result.status = "none"
    /\ nl_args' = [netlist |-> netlist, output_gates |-> output_gates]
    /\ nl_result' = check_netlist_complete(netlist, output_gates)
    /\ UNCHANGED <<boardVars, gridVars, netVars, eveningVars, slotVars>>

NetlistNext ==
    /\ nl_result.status = "none"
    /\ \E netlist \in Netlists, output_gates \in OutputGates :
          CheckNetlist(netlist, output_gates)

NetlistInit ==
    /\ pc = "idle"
    /\ file = << >>
    /\ heap = << >>
    /\ board = 0
    /\ vehicles = << >>
    /\ nread = 0
    /\ entry = NoEntry
    /\ raised = "none"
    /\ was_solved = FALSE
    /\ gpc = "idle"
    /\ print_file = << >>
    /\ grid = NoGrid
    /\ nets = << >>
    /\ nplaced = 0
    /\ graised = "none"
    /\ cost = -1
    /\ net_args = NoNet
    /\ net_result = [status |-> "none", wires |-> << >>]
    /\ nl_args = [netlist |-> {}, output_gates |-> << >>]
    /\ nl_result = [status |-> "none", gates |-> {}]
    /\ ev_schedule = << >>
    /\ ev_result = "none"
    /\ fs_schedule = << >>
    /\ fs_result = [malus |-> -1, infeasible_students |-> -1]

NetlistSpec == NetlistInit /\ [][NetlistNext]_vars

(***************************************************************************)
(* lectures_and_lesroosters/__init__.py: only_biggest_in_evening           *)
(***************************************************************************)
\* A record of output.csv, with the columns this check reads
EveningRecord(time, room) == [time |-> time, room |-> room]

\* schedule.groupby("time").get_group(t): the records of that time, in the
\* order of the file
get_group(schedule, t) ==
    LET AtTime(r) == r.time = t
    IN  SelectSeq(schedule, AtTime)

\* evening_group.all()["room"]: every room of the group is a truthy value
AllRoom(group) == \A i \in DOMAIN group : group[i].room # ""

\* only_biggest_in_evening: "pass", or the check50.Failure it raises
only_biggest_in_evening(schedule) ==
    IF 17 \in {schedule[i].time : i \in DOMAIN schedule}
    THEN LET evening_group == get_group(schedule, 17)
         IN  IF ~AllRoom(evening_group) \/ evening_group[1].room # "C0.110"
             THEN "Failure"
             ELSE "pass"
    ELSE "pass"

\* The records of output.csv: a morning, an afternoon or the evening slot,
\* in the largest room or one of two others
EveningRecords ==
    { EveningRecord(time, room) : time \in {9, 15, 17},
                                  room \in {"C0.110", "A1.04", "B0.201"} }

\* The schedules: up to MaxRecords records
EveningSchedules == UNION { SeqsOf(EveningRecords, n) : n \in 0 .. MaxRecords }

\* the check only_biggest_in_evening runs on output.csv
CheckEvening(schedule) ==
    /\ ev_result = "none"
    /\ ev_schedule' = schedule
    /\ ev_result' = only_biggest_in_evening(schedule)
    /\ UNCHANGED <<boardVars, gridVars, netVars, netlistVars, slotVars>>

EveningNext ==
    /\ ev_result = "none"
    /\ \E schedule \in EveningSchedules : CheckEvening(schedule)

EveningInit ==
    /\ pc = "idle"
    /\ file = << >>
    /\ heap = << >>
    /\ board = 0
    /\ vehicles = << >>
    /\ nread = 0
    /\ entry = NoEntry
    /\ raised = "none"
    /\ was_solved = FALSE
    /\ gpc = "idle"
    /\ print_file = << >>
    /\ grid = NoGrid
    /\ nets = << >>
    /\ nplaced = 0
    /\ graised = "none"
    /\ cost = -1
    /\ net_args = NoNet
    /\ net_result = [status |-> "none", wires |-> << >>]
    /\ nl_args = [netlist |-> {}, output_gates |-> << >>]
    /\ nl_result = [status |-> "none", gates |-> {}]
    /\ ev_schedule = << >>
    /\ ev_result = "none"
    /\ fs_schedule = << >>
    /\ fs_result = [malus |-> -1, infeasible_students |-> -1]

EveningSpec == EveningInit /\ [][EveningNext]_vars

(***************************************************************************)
(* lectures_and_lesroosters/__init__.py: check_free_slots                  *)
(***************************************************************************)
\* A record of the frame, with the columns check_free_slots reads
Lesson(student, day, time) == [student |-> student, day |-> day, time |-> time]

\* df.groupby(["student", "day"]): the keys of the groups
GroupKeys(df) == { <<df[i].student, df[i].day>> : i \in DOMAIN df }

\* the records of one group
GroupOf(df, key) ==
    LET InGroup(r) == <<r.student, r.day>> = key
    IN  SelectSeq(df, InGroup)

\* group.sort_values("time").drop_duplicates("time"): the times of the
\* group, each once, in ascending order
RECURSIVE Ascending(_)
Ascending(times) ==
    IF times = {} THEN << >>
    ELSE LET least == CHOOSE t \in times : \A u \in times : t <= u
         IN  <<least>> \o Ascending(times \ {least})

Slots(group) == Ascending({ group[i].time : i \in DOMAIN group })

\* check_free_slots: the body of the loop, what one group adds to `malus`
\* and to `infeasible_students`
GroupMalus(slots) ==
    LET first == slots[1]
        last  == slots[Len(slots)]
        nothing == [malus |-> 0, infeasible_students |-> 0]
    IN  IF Len(slots) > 1
        THEN IF Len(slots) = 2
             THEN IF last - first = 4 THEN [malus |-> 1, infeasible_students |-> 0]
                  ELSE IF last - first = 6 THEN [malus |-> 3, infeasible_students |-> 0]
                  ELSE IF last - first > 6 THEN [malus |-> 0, infeasible_students |-> 1]
                  ELSE nothing
             ELSE IF Len(slots) = 3
             THEN IF last - first = 6 THEN [malus |-> 1, infeasible_students |-> 0]
                  ELSE IF last - first = 8 THEN [malus |-> 3, infeasible_students |-> 0]
                  ELSE nothing
             ELSE IF Len(slots) = 4
             THEN IF last - first = 10 THEN [malus |-> 1, infeasible_students |-> 0]
                  ELSE nothing
             ELSE nothing
        ELSE nothing

\* check_free_slots: `for student, group in student_day`, over the groups
\* still to visit
RECURSIVE FreeSlotsLoop(_, _)
FreeSlotsLoop(df, keys) ==
    IF keys = {}
    THEN [malus |-> 0, infeasible_students |-> 0]
    ELSE LET key  == CHOOSE k \in keys : TRUE
             one  == GroupMalus(Slots(GroupOf(df, key)))
             rest == FreeSlotsLoop(df, keys \ {key})
         IN  [malus |-> one.malus + rest.malus,
              infeasible_students |-> one.infeasible_students + rest.infeasible_students]

\* check_free_slots
check_free_slots(df) == FreeSlotsLoop(df, GroupKeys(df))

\* The two-hour slots of a day
TimeSlots == {9, 11, 13, 15, 17}

\* The records of output.csv: two students, one of them on two days
Lessons ==
    { Lesson(sd[1], sd[2], time) :
        sd \in { <<"s1", "ma">>, <<"s1", "di">>, <<"s2", "ma">> },
        time \in TimeSlots }

\* The frames of up to max records
Frames(max) == UNION { [1 .. n -> Lessons] : n \in 0 .. max }

\* not_exceed_free_slots: `malus, infeasible_students = check_free_slots(schedule)`
CheckFreeSlots(df) ==
    /\ fs_result.malus = -1
    /\ fs_schedule' = df
    /\ fs_result' = check_free_slots(df)
    /\ UNCHANGED <<boardVars, gridVars, netVars, netlistVars, eveningVars>>

SlotNext ==
    /\ fs_result.malus = -1
    /\ \E df \in Frames(MaxLessons) : CheckFreeSlots(df)

SlotInit ==
    /\ pc = "idle"
    /\ file = << >>
    /\ heap = << >>
    /\ board = 0
    /\ vehicles = << >>
    /\ nread = 0
    /\ entry = NoEntry
    /\ raised = "none"
    /\ was_solved = FALSE
    /\ gpc = "idle"
    /\ print_file = << >>
    /\ grid = NoGrid
    /\ nets = << >>
    /\ nplaced = 0
    /\ graised = "none"
    /\ cost = -1
    /\ net_args = NoNet
    /\ net_result = [status |-> "none", wires |-> << >>]
    /\ nl_args = [netlist |-> {}, output_gates |-> << >>]
    /\ nl_result = [status |-> "none", gates |-> {}]
    /\ ev_schedule = << >>
    /\ ev_result = "none"
    /\ fs_schedule = << >>
    /\ fs_result = [malus |-> -1, infeasible_students |-> -1]

SlotSpec == SlotInit /\ [][SlotNext]_vars

(***************************************************************************)
(* Claims about rush_hour (checked under BoardSpec)                        *)
(***************************************************************************)
Sgn(n) == IF n > 0 THEN 1 ELSE IF n < 0 THEN -1 ELSE 0

Cells(size) == Range(size) \X Range(size)

\* the cells of board b that hold the vehicle called name
CellsOf(b, name) == {p \in Cells(b.size) : b._board[p[1]][p[2]] = name}

\* a cell shifted by k along the axis of an orientation
Shift(p, orientation, k) ==
    IF orientation = "V" THEN <<p[1], p[2] + k>> ELSE <<p[1] + k, p[2]>>

\* vehicle v of board b, shifted by k cells along its axis, lies inside the
\* board and overlaps no other vehicle
FreeAt(b, v, k) ==
    \A p \in CellsOf(b, v.name) :
        LET q == Shift(p, v.orientation, k)
        IN  /\ q \in Cells(b.size)
            /\ b._board[q[1]][q[2]] \in {EMPTY_TILE, v.name}

PathFree(b, v, n) == \A k \in 1 .. Abs(n) : FreeAt(b, v, k * Sgn(n))

\* the vehicle of check_moves's list named by a row of output.csv
Named(car) == CHOOSE v \in {vehicles[i] : i \in DOMAIN vehicles} : v.name = car

\* this step is one `board.move(vehicle, int(entry["move"]))` of check_moves
MoveCall == pc = "moves" /\ nread' = nread + 1

\* C1: board.move(vehicle, steps) succeeds exactly when the vehicle, shifted
\* by every k in 1..|steps| in the sign of steps, lies inside the board and
\* overlaps no other vehicle; otherwise it raises Collision or WallHit, also
\* when only an intermediate position is blocked and the final one is free.
C1_MoveChecksEveryUnitStep ==
    [][ MoveCall =>
          LET v == Named(entry'.car)
              n == entry'.move
          IN  /\ raised' \in {"none", "Collision", "WallHit"}
              /\ (raised' = "none") <=> PathFree(heap[board], v, n)
      ]_vars

\* a move was refused although its final position is free and inside the board
C1_Witness ==
    /\ pc = "failed"
    /\ raised = "Collision"
    /\ Abs(entry.move) >= 2
    /\ FreeAt(heap[board], Named(entry.car), entry.move)

\* the vehicles of board b each hold exactly `length` contiguous cells along
\* their axis, every held cell belongs to a listed vehicle, and every cell
\* is one of the size x size cells
WellFormed(b) ==
    /\ DOMAIN b._board = Range(b.size)
    /\ \A c \in Range(b.size) : DOMAIN b._board[c] = Range(b.size)
    /\ \A i, j \in DOMAIN b.vehicles : b.vehicles[i].name = b.vehicles[j].name => i = j
    /\ \A p \in Cells(b.size) :
          b._board[p[1]][p[2]] # EMPTY_TILE =>
              \E i \in DOMAIN b.vehicles : b.vehicles[i].name = b._board[p[1]][p[2]]
    /\ \A i \in DOMAIN b.vehicles :
          LET v == b.vehicles[i]
              held == CellsOf(b, v.name)
          IN  /\ Cardinality(held) = v.length
              /\ \E a \in held :
                    held = {Shift(a, v.orientation, k) : k \in 0 .. (v.length - 1)}

\* C2: on every board reached by a successful load and successful moves each
\* cell holds at most one vehicle, each vehicle holds exactly `length`
\* contiguous cells along its axis, and all held cells are inside the board.
C2_BoardWellFormed ==
    pc \in {"moves", "passed", "failed"} =>
        \A a \in DOMAIN heap :
            /\ WellFormed(heap[a])
            /\ {heap[a].vehicles[i] : i \in DOMAIN heap[a].vehicles}
                 = {vehicles[i] : i \in DOMAIN vehicles}

\* a board of three vehicles after a successful move
C2_Witness ==
    /\ pc = "moves"
    /\ nread >= 1
    /\ raised = "none"
    /\ entry.move # 0
    /\ Len(vehicles) = 3

\* C3: board.move leaves the board it is called on as it was, when it returns
\* and when it raises; on a raise check_moves still holds that board.
C3_MoveKeepsReceiver ==
    [][ MoveCall =>
          /\ board \in DOMAIN heap'
          /\ heap'[board] = heap[board]
          /\ (raised' # "none" => board' = board)
      ]_vars

\* a move that raised after its first unit step had succeeded
C3_Witness ==
    /\ pc = "failed"
    /\ raised # "none"
    /\ FreeAt(heap[board], Named(entry.car), Sgn(entry.move))

\* C4: when b.move(v, n) succeeds, moving v by -n on the result succeeds too
\* and gives the occupancy of b.
C4_MoveThereAndBack ==
    [][ (MoveCall /\ raised' = "none") =>
          LET v == Named(entry'.car)
              n == entry'.move
              r == move((board' :> heap'[board']), board', v, -n)
          IN  /\ r.status = "ok"
              /\ r.heap[r.ret]._board = heap[board]._board
      ]_vars

\* a successful move over two cells
C4_Witness ==
    /\ pc = "moves"
    /\ nread >= 1
    /\ raised = "none"
    /\ Abs(entry.move) = 2
    /\ ~is_solved(heap[board])

\* the footprint of a row of BOARD_FILE, in the order from its anchor
FootprintOf(e) ==
    [i \in 1 .. e.length |->
        Shift(<<e.col - 1, e.row - 1>>, e.orientation, i - 1)]

Outside(b, p) == p \notin Cells(b.size)
Blocked(b, p) == Outside(b, p) \/ b._board[p[1]][p[2]] # EMPTY_TILE

\* this step is one `board.place(vehicle, col, row)` of Board.load
PlaceCall == pc = "load" /\ file # << >>

\* C5 as claimed: place raises WallHit whenever a cell of the footprint lies
\* outside the board, whatever the board holds.
C5_WallHitWheneverOutside ==
    (pc = "error" /\ \E i \in 1 .. entry.length : Outside(heap[board], FootprintOf(entry)[i]))
        => raised = "WallHit"

\* C5 amended: with a cell of the footprint outside the board, place never
\* succeeds; it raises WallHit when the first cell from the anchor that is
\* outside or occupied is outside, and Collision when that cell is occupied.
C5_FirstBlockedCellDecides ==
    [][ PlaceCall =>
          LET b == heap[board]
              f == FootprintOf(Head(file))
              bad == {i \in DOMAIN f : Blocked(b, f[i])}
              first == CHOOSE i \in bad : \A j \in bad : i <= j
          IN  (\E i \in DOMAIN f : Outside(b, f[i])) =>
                  /\ raised' \in {"WallHit", "Collision"}
                  /\ (raised' = "WallHit") <=> Outside(b, f[first])
      ]_vars

\* a placement across the wall that raised Collision
C5_Witness ==
    /\ pc = "error"
    /\ raised = "Collision"
    /\ \E i \in 1 .. entry.length : Outside(heap[board], FootprintOf(entry)[i])

\* the exit cell (size-1, floor((size-1)/2)) holds the vehicle named X
ExitHoldsX(b) == b._board[BOARD_SIZE - 1][(BOARD_SIZE - 1) \div 2] = "X"

Verdict == pc \in {"passed", "failed"}

\* C6: check_moves applies the rows in order; it passes exactly when no move
\* raised and the exit cell holds X after the last row; it fails at the first
\* move that raises and applies nothing after it.
C6_PassIffAllMovesAndSolved ==
    /\ [](pc = "passed" => (raised = "none" /\ ExitHoldsX(heap[board])))
    /\ [](pc = "failed" => (raised \in {"Collision", "WallHit"} \/ ~ExitHoldsX(heap[board])))
    /\ [][ /\ (MoveCall => ((pc' = "failed") <=> (raised' # "none")))
           /\ (MoveCall /\ raised' = "none" => pc' = "moves")
           /\ ((pc = "moves" /\ nread' = nread) =>
                  /\ pc' = IF ExitHoldsX(heap[board]) THEN "passed" ELSE "failed"
                  /\ heap'[board'] = heap[board])
           /\ ~Verdict
       ]_vars

\* rejected at the end of the file although an earlier board was solved
C6_Witness ==
    /\ pc = "failed"
    /\ raised = "none"
    /\ was_solved
    /\ nread >= 2


(***************************************************************************)
(* Claims about chips_and_circuits (checked under GridSpec and NetSpec)    *)
(***************************************************************************)
\* the nets handed to place_net so far, all of them placed without a raise
Placed == gpc \in {"place", "done"} /\ graised \in {"none", "ok"}

\* sum over the first n nets of (number of waypoints - 1)
RECURSIVE WireLength(_, _)
WireLength(ns, n) ==
    IF n = 0 THEN 0 ELSE (Len(ns[n].wires) - 1) + WireLength(ns, n - 1)

\* the cell [z][y][x] is the cell of a loaded gate
GateCell(g, z, y, x) ==
    z = 0 /\ \E i \in DOMAIN g.gates : g.gates[i].x = x /\ g.gates[i].y = y

\* 300 * (k - 1) for every cell of S that is no gate cell and holds k > 1
RECURSIVE OverlapPenalty(_, _)
OverlapPenalty(g, S) ==
    IF S = {} THEN 0
    ELSE LET c == CHOOSE c \in S : TRUE
             k == Len(g._grid[c[1]][c[2]][c[3]].occupants)
         IN  (IF ~GateCell(g, c[1], c[2], c[3]) /\ k > 1 THEN 300 * (k - 1) ELSE 0)
               + OverlapPenalty(g, S \ {c})

\* C7: after successful place_net calls get_cost() is the total wire length,
\* the sum over the placed nets of (waypoints - 1), plus 300 * (k - 1) for
\* every non-gate cell that holds k > 1 occupants.
C7_CostIsWireLengthPlusPenalty ==
    Placed =>
        /\ get_cost(grid) = WireLength(nets, nplaced)
                              + OverlapPenalty(grid, GridCells(grid))
        /\ (gpc = "done" => cost = get_cost(grid))

\* the interior waypoints of a net: all but the first and the last
Interior(net) == 2 .. (Len(net.wires) - 1)

\* the waypoint is on layer 0 at the (x, y) of a loaded gate
OnGate(g, w) == GateCell(g, w.z, w.y, w.x)

\* the waypoint names no cell of the grid: the grid is NUMBER_OF_LAYERS
\* layers of (max gate y + 2) rows of (max gate x + 2) cells
OffGrid(g, w) ==
    \/ w.z >= NUMBER_OF_LAYERS
    \/ w.y >= Max({g.gates[i].y : i \in DOMAIN g.gates}) + 2
    \/ w.x >= Max({g.gates[i].x : i \in DOMAIN g.gates}) + 2

\* this step is one `grid.place_net(net)` of check_grid
PlaceNetCall == gpc = "place" /\ nplaced' = nplaced + 1

C9_Scenario ==
    /\ print_file = << PrintRow("1", 0, 0), PrintRow("2", 0, 2) >>
    /\ gpc \in {"place", "done", "error"}
    /\ nplaced >= 1
    /\ nets[nplaced].gate_a.id = "1"
    /\ nets[nplaced].gate_b.id = "2"
    /\ nets[nplaced].wires = << Wire(0, 0, 0), Wire(0, 1, 0), Wire(0, 2, 0) >>

\* C9 as claimed: in that scenario place_net raises OccupiedByGate.
C9_Layer0RouteRaises ==
    C9_Scenario => graised = "OccupiedByGateError"

\* C9 amended: in that scenario place_net raises nothing; (0,1) on layer 0
\* is no gate cell and now holds the net as its latest occupant (its only
\* one when the net is the first), and the cost of the grid with this one
\* net is 2.
C9_Layer0RouteIsPlaced ==
    C9_Scenario =>
        /\ graised = "ok"
        /\ gpc \in {"place", "done"}
        /\ ~grid._grid[0][1][0].is_gate
        /\ LET occupants == grid._grid[0][1][0].occupants
           IN  /\ Len(occupants) >= 1
               /\ occupants[Len(occupants)] = nets[nplaced]
               /\ nplaced = 1 => Len(occupants) = 1
        /\ (gpc = "done" /\ nplaced = 1 => cost = 2)

\* the route of C9 was placed and the check returned its cost
C9_Witness == C9_Scenario /\ gpc = "done"

\* waypoint w coincides with gate g: same (x, y), on layer 0
Coincides(w, g) == w.x = g.x /\ w.y = g.y /\ w.z = 0

\* the 3D Manhattan distance of two waypoints
Manhattan(v, w) == Abs(v.x - w.x) + Abs(v.y - w.y) + Abs(v.z - w.z)

\* the ends of the wires are on the two gates, in either orientation
EndsOnGates(n) ==
    LET first == n.wires[1]
        last  == n.wires[Len(n.wires)]
    IN  \/ Coincides(first, n.gate_a) /\ Coincides(last, n.gate_b)
        \/ Coincides(first, n.gate_b) /\ Coincides(last, n.gate_a)

\* the places i where wires[i] and wires[i + 1] are not at distance 1
Gaps(n) ==
    {i \in 1 .. (Len(n.wires) - 1) : Manhattan(n.wires[i], n.wires[i + 1]) # 1}

\* C10: Net(gate_a, gate_b, wires) succeeds exactly when the ends of the
\* wires coincide with the two gates (either orientation) and all
\* consecutive waypoints are at distance 1; it raises UnconnectedNetError
\* when the ends do not (continuous or not), and InteruptedNetError naming
\* the first offending pair when only the distance condition fails.
C10_NetConstructorChecks ==
    net_result.status # "none" =>
        LET gaps == Gaps(net_args)
            first == CHOOSE i \in gaps : \A j \in gaps : i <= j
        IN  /\ (net_result.status = "ok") <=> (EndsOnGates(net_args) /\ gaps = {})
            /\ ~EndsOnGates(net_args) => net_result.status = "UnconnectedNetError"
            /\ (EndsOnGates(net_args) /\ gaps # {}) =>
                  /\ net_result.status = "InteruptedNetError"
                  /\ net_result.wires =
                        << net_args.wires[first], net_args.wires[first + 1] >>

\* a net that is neither connected nor continuous raised UnconnectedNetError
C10_Witness ==
    /\ net_result.status = "UnconnectedNetError"
    /\ Gaps(net_args) # {}
    /\ net_args.gate_a # net_args.gate_b

\* two rows of the print name the same (x, y)
SharedCell(rows) ==
    \E i \in DOMAIN rows, j \in DOMAIN rows :
        i # j /\ rows[i].x = rows[j].x /\ rows[i].y = rows[j].y

\* C11: loading a gate layout in which two gates have the same (x, y) fails
\* with the typed DuplicateGatePlacement failure, and no Grid is returned.
C11_DuplicateGateIsTypedFailure ==
    (gpc # "init" /\ SharedCell(print_file)) =>
        /\ graised = "DuplicateGatePlacement"
        /\ grid = NoGrid

\* a gate pair of a netlist or of output.csv as an unordered pair
Unordered(p) == {p[1], p[2]}

\* output.csv lists every net of the netlist exactly once and no other net
ListsEveryNetOnce(netlist, output_gates) ==
    /\ \A i \in DOMAIN output_gates, j \in DOMAIN output_gates :
          i # j => Unordered(output_gates[i]) # Unordered(output_gates[j])
    /\ {Unordered(output_gates[i]) : i \in DOMAIN output_gates}
          = {Unordered(n) : n \in netlist}

C13_EveryEveningRecordInBiggest ==
    ev_result = "pass" =>
        \A i \in DOMAIN ev_schedule :
            ev_schedule[i].time = 17 => ev_schedule[i].room = "C0.110"

\* the time slots a (student, day) uses
UsedSlots(df, key) ==
    { df[i].time : i \in { j \in DOMAIN df : <<df[j].student, df[j].day>> = key } }

\* the slots between the first and the last used slot that are not used
FreeBetween(used) ==
    { t \in TimeSlots : /\ t \notin used
                        /\ \E u \in used : u < t
                        /\ \E u \in used : t < u }

\* the (student, day) groups with exactly n free slots between their first
\* and last used slot
GroupsWithFree(df, n) ==
    { key \in GroupKeys(df) : Cardinality(FreeBetween(UsedSlots(df, key))) = n }

\* C14: check_free_slots charges every (student, day) 1 malus point when
\* exactly one slot between its first and last used slot is free, 3 when
\* exactly two are free, and counts it as infeasible when three are free,
\* whatever the number of used slots.
C14_MalusByFreeSlots ==
    fs_result.malus # -1 =>
        /\ fs_result.malus = Cardinality(GroupsWithFree(fs_schedule, 1))
                               + 3 * Cardinality(GroupsWithFree(fs_schedule, 2))
        /\ fs_result.infeasible_students = Cardinality(GroupsWithFree(fs_schedule, 3))

\* the anchor of the vehicle called name on board b: the cell it holds with
\* the least col and the least row
AnchorOf(b, name) ==
    CHOOSE p \in CellsOf(b, name) :
        \A q \in CellsOf(b, name) : p[1] <= q[1] /\ p[2] <= q[2]

\* C15: when board.move(v, n) succeeds, the returned board holds exactly the
\* vehicles of the receiver, every vehicle other than v has the anchor and
\* the footprint it had, and the anchor of v is shifted by exactly n along
\* its axis (row for "V", col for "H"); move(v, 0) returns a board with the
\* occupancy of the receiver.
C15_MoveShiftsOnlyTheVehicle ==
    [][ (MoveCall /\ raised' = "none") =>
          LET v    == Named(entry'.car)
              n    == entry'.move
              self == heap[board]
              ret  == heap'[board']
          IN  /\ Len(ret.vehicles) = Len(self.vehicles)
              /\ {ret.vehicles[i] : i \in DOMAIN ret.vehicles}
                    = {self.vehicles[i] : i \in DOMAIN self.vehicles}
              /\ \A i \in DOMAIN self.vehicles :
                    LET u == self.vehicles[i]
                    IN  u.name # v.name =>
                          /\ CellsOf(ret, u.name) = CellsOf(self, u.name)
                          /\ AnchorOf(ret, u.name) = AnchorOf(self, u.name)
              /\ AnchorOf(ret, v.name) = Shift(AnchorOf(self, v.name), v.orientation, n)
              /\ Cardinality(CellsOf(ret, v.name)) = v.length
              /\ (n = 0 => ret._board = self._board)
      ]_vars

\* the car A was moved along its column on a board of three vehicles
C15_Witness ==
    /\ pc = "moves"
    /\ nread >= 1
    /\ raised = "none"
    /\ entry.car = "A"
    /\ entry.move # 0
    /\ Len(heap[board].vehicles) = 3

=============================================================================
